---- MODULE Spec2Model ----
(***************************************************************************)
(* Settlement logic of the two-asset constant-product pool:                *)
(*   programs/amm/src/contexts/deposit.rs   Deposit::deposit               *)
(*   programs/amm/src/contexts/swap.rs      Swap::swap                     *)
(* The curve library (constant_product_curve), the error enum and the      *)
(* token program are not part of the two source files; they are modelled   *)
(* from the design document and marked as such where they are defined.     *)
(***************************************************************************)
EXTENDS Integers, Sequences, FiniteSets, TLC

VARIABLES
    locked,     \* config.locked
    fee,        \* config.fee, basis points
    vault_x,    \* vault_x.amount
    vault_y,    \* vault_y.amount
    supply,     \* lp_mint.supply / mint_lp.supply
    ata_x,      \* lp_provider_ata_x.amount / user_ata_x.amount
    ata_y,      \* lp_provider_ata_y.amount / user_ata_y.amount
    ata_lp,     \* lp_provider_ata_lp.amount
    last        \* the last instruction: arguments, accounts before it, outcome

vars == <<locked, fee, vault_x, vault_y, supply, ata_x, ata_y, ata_lp, last>>

----------------------------------------------------------------------------
(* Bounds of the model.  Token amounts are u64 in the program; the model    *)
(* keeps the same checked arithmetic over a narrower word.                  *)

U64Max == 4095

\* Spec: the depositor's balances when the pool is created.
UserX0 == 2
UserY0 == 2

\* Spec: largest arguments of an instruction.
MaxShares == 2
MaxAmount == 2
MaxMin == 2

\* SpecCurve: largest small reserve / supply / argument drawn.
MaxReserve == 4
MaxSupply == 3
MaxIn == 4

FeeRates == {0, 5000}

\* SpecCurve: the pool states and arguments a single instruction is run on.
CurveFees == {0, 30, 5000, 9999}
CurveReserves == (1..MaxReserve) \cup {1000, U64Max - 1}
CurveSupplies == (1..MaxSupply) \cup {1000}
CurveIns == (1..MaxIn) \cup {100}
CurveMaxes == {MaxIn, U64Max}
CurveMins == {0, 1, 90, 91}

Amounts == 0..MaxAmount
Shares == 0..MaxShares
Mins == 0..MaxMin
Faults == 0..3

----------------------------------------------------------------------------
(* Curve engine (constant_product_curve), from the design document §4.1.   *)

CeilDiv(a, b) == (a + b - 1) \div b

CurveErr(e) ==
    [ok |-> FALSE, err |-> e, x |-> 0, y |-> 0,
     amount_in_net |-> 0, amount_out |-> 0, fee |-> 0]

\* §4.1a deposit_amounts_from_shares: both amounts rounded up.
xy_deposit_amounts_from_l(x, y, l, a, precision) ==
    IF l = 0 THEN CurveErr("Overflow")
    ELSE LET ax == CeilDiv(a * x, l)
             ay == CeilDiv(a * y, l)
         IN  IF ax > U64Max \/ ay > U64Max THEN CurveErr("Overflow")
             ELSE IF a > 0 /\ (ax = 0 \/ ay = 0) THEN CurveErr("ZeroAmount")
             ELSE [CurveErr("Ok") EXCEPT !.ok = TRUE, !.x = ax, !.y = ay]

\* §4.1b swap_output: fee and output rounded down.
swap_output(reserve_in, reserve_out, amount_in, fee_rate) ==
    LET f   == (amount_in * fee_rate) \div 10000
        net == amount_in - f
        out == IF reserve_in + net = 0 THEN 0
               ELSE (reserve_out * net) \div (reserve_in + net)
    IN  IF reserve_in = 0 \/ reserve_out = 0 THEN CurveErr("InsufficientLiquidity")
        ELSE IF reserve_in + net > U64Max THEN CurveErr("Overflow")
        ELSE IF out >= reserve_out THEN CurveErr("InsufficientLiquidity")
        ELSE [CurveErr("Ok") EXCEPT !.ok = TRUE, !.amount_in_net = net,
                                    !.amount_out = out, !.fee = f]

\* ConstantProduct::init(x, y, l, fee, None)
ConstantProduct_init(x, y, l, f) ==
    IF x = 0 \/ y = 0
    THEN [ok |-> FALSE, err |-> "InsufficientLiquidity", x |-> x, y |-> y, l |-> l, fee |-> f]
    ELSE [ok |-> TRUE, err |-> "Ok", x |-> x, y |-> y, l |-> l, fee |-> f]

SwapErr(e) == [ok |-> FALSE, err |-> e, deposit |-> 0, withdraw |-> 0, fee |-> 0,
               amount_in_net |-> 0]

\* curve.swap(p, amount, min): §4.1b, then §4.4 steps 4 and 5.
\* SwapResult.deposit is what the trader pays in (amount_in, §4.4 step 6).
ConstantProduct_swap(curve, p, a, min) ==
    LET r == IF p = "X" THEN swap_output(curve.x, curve.y, a, curve.fee)
                        ELSE swap_output(curve.y, curve.x, a, curve.fee)
    IN  IF ~r.ok THEN SwapErr(r.err)
        ELSE IF r.amount_out = 0 \/ r.amount_in_net = 0 THEN SwapErr("ZeroAmount")
        ELSE IF r.amount_out < min THEN SwapErr("SlippageExceeded")
        ELSE [ok |-> TRUE, err |-> "Ok", deposit |-> a, withdraw |-> r.amount_out,
              fee |-> r.fee, amount_in_net |-> r.amount_in_net]

\* AmmError::from(CurveError), errors.rs; names as §7 and the checks of swap.rs.
AmmError_from(e) ==
    CASE e = "InsufficientLiquidity" -> "InsufficientBalance"
      [] e = "ZeroAmount"            -> "InvalidAmount"
      [] e = "SlippageExceeded"      -> "SlippageExceeded"
      [] OTHER                       -> "Overflow"

----------------------------------------------------------------------------
(* Token program (§6 transfer and mint capability).  acc is the record of  *)
(* the token accounts an instruction was handed.  fault is TRUE when the   *)
(* token program rejects the call for a reason outside the pool (frozen    *)
(* account, revoked delegate).                                              *)

Accounts == [vault_x |-> vault_x, vault_y |-> vault_y, supply |-> supply,
             ata_x |-> ata_x, ata_y |-> ata_y, ata_lp |-> ata_lp]

transfer_checked(acc, from, to, amount, fault) ==
    IF fault \/ acc[from] < amount \/ acc[to] + amount > U64Max
    THEN [ok |-> FALSE, acc |-> acc]
    ELSE [ok |-> TRUE,
          acc |-> [acc EXCEPT ![from] = @ - amount, ![to] = @ + amount]]

mint_to(acc, to, amount, fault) ==
    IF fault \/ acc.supply + amount > U64Max
    THEN [ok |-> FALSE, acc |-> acc]
    ELSE [ok |-> TRUE,
          acc |-> [acc EXCEPT !.supply = @ + amount, ![to] = @ + amount]]

Cpi(name, from, to, amount) ==
    [cpi |-> name, from |-> from, to |-> to, amount |-> amount]

----------------------------------------------------------------------------
(* Outcome of a handler: the error it returned ("Ok" for Ok(())), the      *)
(* amounts it settled on, the accounts as the handler left them and the    *)
(* CPI calls it issued, in order (the rejected one included).              *)

Outcome(e, acc, log) ==
    [err |-> e, acc |-> acc, log |-> log, x |-> 0, y |-> 0,
     deposit |-> 0, withdraw |-> 0, fee |-> 0, net |-> 0]

----------------------------------------------------------------------------
(* deposit.rs                                                              *)

\* deposit_amounts with vault_y and vault_x exchanged in the call of the curve
deposit_amounts_yx(acc, lp_amount, max_x, max_y) ==
    IF acc.supply = 0 /\ acc.vault_x = 0 /\ acc.vault_y = 0
    THEN [ok |-> TRUE, x |-> max_x, y |-> max_y]
    ELSE LET amounts == xy_deposit_amounts_from_l(
                            acc.vault_y, acc.vault_x, acc.supply, lp_amount, 6)
         IN  [ok |-> amounts.ok, x |-> amounts.x, y |-> amounts.y]

\* deposit_amounts with max_y and max_x exchanged on the empty pool
deposit_amounts_exchanged(acc, lp_amount, max_x, max_y) ==
    IF acc.supply = 0 /\ acc.vault_x = 0 /\ acc.vault_y = 0
    THEN [ok |-> TRUE, x |-> max_y, y |-> max_x]
    ELSE LET amounts == xy_deposit_amounts_from_l(
                            acc.vault_x, acc.vault_y, acc.supply, lp_amount, 6)
         IN  [ok |-> amounts.ok, x |-> amounts.x, y |-> amounts.y]

\* deposit.rs:77-89, the match on the empty pool
deposit_amounts(acc, lp_amount, max_x, max_y) ==
    IF acc.supply = 0 /\ acc.vault_x = 0 /\ acc.vault_y = 0
    THEN [ok |-> TRUE, x |-> max_x, y |-> max_y]
    ELSE LET amounts == xy_deposit_amounts_from_l(
                            acc.vault_x, acc.vault_y, acc.supply, lp_amount, 6)
         IN  [ok |-> amounts.ok, x |-> amounts.x, y |-> amounts.y]

\* deposit.rs:101-124
deposit_token(acc, is_x, amount, fault) ==
    IF is_x THEN transfer_checked(acc, "ata_x", "vault_x", amount, fault)
            ELSE transfer_checked(acc, "ata_y", "vault_y", amount, fault)

\* deposit.rs:126-155
mint_lp_tokens(acc, amount, fault) == mint_to(acc, "ata_lp", amount, fault)

\* deposit_effects with the result of the Y transfer dropped instead of `?`
deposit_effects_unchecked_y(acc, lp_amount, x, y, fault) ==
    LET c1 == Cpi("transfer", "ata_x", "vault_x", x)
        c2 == Cpi("transfer", "ata_y", "vault_y", y)
        c3 == Cpi("mint", "lp_mint", "ata_lp", lp_amount)
        t1 == transfer_checked(acc, "ata_x", "vault_x", x, fault = 1)
        t2 == transfer_checked(t1.acc, "ata_y", "vault_y", y, fault = 2)
        t3 == mint_to(t2.acc, "ata_lp", lp_amount, fault = 3)
    IN  IF ~t1.ok THEN Outcome("TransferFailed", t1.acc, <<c1>>)
        ELSE IF ~t3.ok THEN Outcome("MintFailed", t3.acc, <<c1, c2, c3>>)
        ELSE Outcome("Ok", t3.acc, <<c1, c2, c3>>)

\* deposit_effects with the Y transfer issued before the X transfer
deposit_effects_y_first(acc, lp_amount, x, y, fault) ==
    LET c1 == Cpi("transfer", "ata_y", "vault_y", y)
        c2 == Cpi("transfer", "ata_x", "vault_x", x)
        c3 == Cpi("mint", "lp_mint", "ata_lp", lp_amount)
        t1 == transfer_checked(acc, "ata_y", "vault_y", y, fault = 1)
        t2 == transfer_checked(t1.acc, "ata_x", "vault_x", x, fault = 2)
        t3 == mint_to(t2.acc, "ata_lp", lp_amount, fault = 3)
    IN  IF ~t1.ok THEN Outcome("TransferFailed", t1.acc, <<c1>>)
        ELSE IF ~t2.ok THEN Outcome("TransferFailed", t2.acc, <<c1, c2>>)
        ELSE IF ~t3.ok THEN Outcome("MintFailed", t3.acc, <<c1, c2, c3>>)
        ELSE Outcome("Ok", t3.acc, <<c1, c2, c3>>)

\* deposit.rs:94-98, the three CPI calls, each followed by `?`
deposit_effects(acc, lp_amount, x, y, fault) ==
    LET c1 == Cpi("transfer", "ata_x", "vault_x", x)
        c2 == Cpi("transfer", "ata_y", "vault_y", y)
        c3 == Cpi("mint", "lp_mint", "ata_lp", lp_amount)
        t1 == deposit_token(acc, TRUE, x, fault = 1)
        t2 == deposit_token(t1.acc, FALSE, y, fault = 2)
        t3 == mint_lp_tokens(t2.acc, lp_amount, fault = 3)
    IN  IF ~t1.ok THEN Outcome("TransferFailed", t1.acc, <<c1>>)
        ELSE IF ~t2.ok THEN Outcome("TransferFailed", t2.acc, <<c1, c2>>)
        ELSE IF ~t3.ok THEN Outcome("MintFailed", t3.acc, <<c1, c2, c3>>)
        ELSE Outcome("Ok", t3.acc, <<c1, c2, c3>>)

\* deposit with max_x compared against the Y amount in the first bound check
deposit_wrong_x_check(acc, lk, lp_amount, max_x, max_y, fault) ==
    IF ~(lp_amount > 0) THEN Outcome("InvalidAmount", acc, <<>>)
    ELSE IF lk THEN Outcome("AMMLocked", acc, <<>>)
    ELSE LET am == IF acc.supply = 0 /\ acc.vault_x = 0 /\ acc.vault_y = 0
                   THEN [ok |-> TRUE, x |-> max_x, y |-> max_y]
                   ELSE xy_deposit_amounts_from_l(
                            acc.vault_x, acc.vault_y, acc.supply, lp_amount, 6)
             c1 == Cpi("transfer", "ata_x", "vault_x", am.x)
             c2 == Cpi("transfer", "ata_y", "vault_y", am.y)
             c3 == Cpi("mint", "lp_mint", "ata_lp", lp_amount)
             t1 == transfer_checked(acc, "ata_x", "vault_x", am.x, fault = 1)
             t2 == transfer_checked(t1.acc, "ata_y", "vault_y", am.y, fault = 2)
             t3 == mint_to(t2.acc, "ata_lp", lp_amount, fault = 3)
             eff == IF ~t1.ok THEN Outcome("TransferFailed", t1.acc, <<c1>>)
                    ELSE IF ~t2.ok THEN Outcome("TransferFailed", t2.acc, <<c1, c2>>)
                    ELSE IF ~t3.ok THEN Outcome("MintFailed", t3.acc, <<c1, c2, c3>>)
                    ELSE Outcome("Ok", t3.acc, <<c1, c2, c3>>)
         IN  IF ~am.ok THEN Outcome("InvalidAmount", acc, <<>>)
             ELSE IF ~(max_x >= am.y)
                  THEN [Outcome("InsufficientTokenX", acc, <<>>)
                            EXCEPT !.x = am.x, !.y = am.y]
             ELSE IF ~(max_y >= am.y)
                  THEN [Outcome("InsufficientTokenY", acc, <<>>)
                            EXCEPT !.x = am.x, !.y = am.y]
             ELSE [eff EXCEPT !.x = am.x, !.y = am.y]

\* deposit with the max_y check made after the X transfer
deposit_late_y_check(acc, lk, lp_amount, max_x, max_y, fault) ==
    IF ~(lp_amount > 0) THEN Outcome("InvalidAmount", acc, <<>>)
    ELSE IF lk THEN Outcome("AMMLocked", acc, <<>>)
    ELSE LET am == IF acc.supply = 0 /\ acc.vault_x = 0 /\ acc.vault_y = 0
                   THEN [ok |-> TRUE, x |-> max_x, y |-> max_y]
                   ELSE xy_deposit_amounts_from_l(
                            acc.vault_x, acc.vault_y, acc.supply, lp_amount, 6)
             t1 == transfer_checked(acc, "ata_x", "vault_x", am.x, fault = 1)
             c1 == Cpi("transfer", "ata_x", "vault_x", am.x)
         IN  IF ~am.ok THEN Outcome("InvalidAmount", acc, <<>>)
             ELSE IF ~(max_x >= am.x)
                  THEN [Outcome("InsufficientTokenX", acc, <<>>)
                            EXCEPT !.x = am.x, !.y = am.y]
             ELSE IF ~t1.ok
                  THEN [Outcome("TransferFailed", t1.acc, <<c1>>)
                            EXCEPT !.x = am.x, !.y = am.y]
             ELSE IF ~(max_y >= am.y)
                  THEN [Outcome("InsufficientTokenY", t1.acc, <<c1>>)
                            EXCEPT !.x = am.x, !.y = am.y]
             ELSE [Outcome("Ok",
                           mint_to(transfer_checked(t1.acc, "ata_y", "vault_y",
                                                    am.y, FALSE).acc,
                                   "ata_lp", lp_amount, FALSE).acc,
                           <<c1, Cpi("transfer", "ata_y", "vault_y", am.y),
                             Cpi("mint", "lp_mint", "ata_lp", lp_amount)>>)
                       EXCEPT !.x = am.x, !.y = am.y]

\* deposit.rs:73-99
deposit(acc, lk, lp_amount, max_x, max_y, fault) ==
    IF ~(lp_amount > 0) THEN Outcome("InvalidAmount", acc, <<>>)
    ELSE IF lk THEN Outcome("AMMLocked", acc, <<>>)
    ELSE LET am == deposit_amounts(acc, lp_amount, max_x, max_y)
         IN  IF ~am.ok THEN Outcome("InvalidAmount", acc, <<>>)
             ELSE IF ~(max_x >= am.x)
                  THEN [Outcome("InsufficientTokenX", acc, <<>>)
                            EXCEPT !.x = am.x, !.y = am.y]
             ELSE IF ~(max_y >= am.y)
                  THEN [Outcome("InsufficientTokenY", acc, <<>>)
                            EXCEPT !.x = am.x, !.y = am.y]
             ELSE [deposit_effects(acc, lp_amount, am.x, am.y, fault)
                       EXCEPT !.x = am.x, !.y = am.y]

----------------------------------------------------------------------------
(* swap.rs                                                                 *)

\* swap_curve with the pair chosen the wrong way round
swap_curve_wrong_pair(acc, f, is_x, amount, min) ==
    LET curve == ConstantProduct_init(acc.vault_x, acc.vault_y, acc.supply, f)
        p     == IF is_x THEN "Y" ELSE "X"
    IN  IF ~curve.ok THEN SwapErr(AmmError_from(curve.err))
        ELSE LET res == ConstantProduct_swap(curve, p, amount, min)
             IN  IF ~res.ok THEN SwapErr(AmmError_from(res.err)) ELSE res

\* swap_curve with args.min and args.amount exchanged in the call of the curve
swap_curve_args_exchanged(acc, f, is_x, amount, min) ==
    LET curve == ConstantProduct_init(acc.vault_x, acc.vault_y, acc.supply, f)
        p     == IF is_x THEN "X" ELSE "Y"
    IN  IF ~curve.ok THEN SwapErr(AmmError_from(curve.err))
        ELSE LET res == ConstantProduct_swap(curve, p, min, amount)
             IN  IF ~res.ok THEN SwapErr(AmmError_from(res.err)) ELSE res

\* swap_curve with 0 handed to the curve where the code hands args.min
swap_curve_no_min(acc, f, is_x, amount, min) ==
    LET curve == ConstantProduct_init(acc.vault_x, acc.vault_y, acc.supply, f)
        p     == IF is_x THEN "X" ELSE "Y"
    IN  IF ~curve.ok THEN SwapErr(AmmError_from(curve.err))
        ELSE LET res == ConstantProduct_swap(curve, p, amount, 0)
             IN  IF ~res.ok THEN SwapErr(AmmError_from(res.err)) ELSE res

\* swap_curve handing on the curve's own error names, without AmmError::from
swap_curve_unmapped_err(acc, f, is_x, amount, min) ==
    LET curve == ConstantProduct_init(acc.vault_x, acc.vault_y, acc.supply, f)
        p     == IF is_x THEN "X" ELSE "Y"
    IN  IF ~curve.ok THEN SwapErr(curve.err)
        ELSE LET res == ConstantProduct_swap(curve, p, amount, min)
             IN  IF ~res.ok THEN SwapErr(res.err) ELSE res

\* swap.rs:81-94, the curve is built from the vaults and asked for the swap
swap_curve(acc, f, is_x, amount, min) ==
    LET curve == ConstantProduct_init(acc.vault_x, acc.vault_y, acc.supply, f)
        p     == IF is_x THEN "X" ELSE "Y"
    IN  IF ~curve.ok THEN SwapErr(AmmError_from(curve.err))
        ELSE LET res == ConstantProduct_swap(curve, p, amount, min)
             IN  IF ~res.ok THEN SwapErr(AmmError_from(res.err)) ELSE res

\* transfer_to_vault with the X accounts in both arms of the match
transfer_to_vault_always_x(acc, is_x, res, fault) ==
    IF is_x THEN transfer_checked(acc, "ata_x", "vault_x", res.deposit, fault)
            ELSE transfer_checked(acc, "ata_x", "vault_x", res.deposit, fault)

\* transfer_to_vault moving the amount after the fee, the fee staying with
\* the trader
transfer_to_vault_net(acc, is_x, res, fault) ==
    IF is_x THEN transfer_checked(acc, "ata_x", "vault_x", res.amount_in_net, fault)
            ELSE transfer_checked(acc, "ata_y", "vault_y", res.amount_in_net, fault)

\* transfer_to_vault moving res.fee where the code moves res.deposit
transfer_to_vault_fee(acc, is_x, res, fault) ==
    IF is_x THEN transfer_checked(acc, "ata_x", "vault_x", res.fee, fault)
            ELSE transfer_checked(acc, "ata_y", "vault_y", res.fee, fault)

\* swap.rs:112-136
transfer_to_vault(acc, is_x, res, fault) ==
    IF is_x THEN transfer_checked(acc, "ata_x", "vault_x", res.deposit, fault)
            ELSE transfer_checked(acc, "ata_y", "vault_y", res.deposit, fault)

\* withdraw_from_vault moving res.deposit where the code moves res.withdraw
withdraw_from_vault_deposit(acc, is_x, res, fault) ==
    IF is_x THEN transfer_checked(acc, "vault_y", "ata_y", res.deposit, fault)
            ELSE transfer_checked(acc, "vault_x", "ata_x", res.deposit, fault)

\* swap.rs:138-177
withdraw_from_vault(acc, is_x, res, fault) ==
    IF is_x THEN transfer_checked(acc, "vault_y", "ata_y", res.withdraw, fault)
            ELSE transfer_checked(acc, "vault_x", "ata_x", res.withdraw, fault)

\* swap.rs:105-109, the two CPI calls, each followed by `?`
swap_effects(acc, is_x, res, fault) ==
    LET c1 == IF is_x THEN Cpi("transfer", "ata_x", "vault_x", res.deposit)
                      ELSE Cpi("transfer", "ata_y", "vault_y", res.deposit)
        c2 == IF is_x THEN Cpi("transfer", "vault_y", "ata_y", res.withdraw)
                      ELSE Cpi("transfer", "vault_x", "ata_x", res.withdraw)
        t1 == transfer_to_vault(acc, is_x, res, fault = 1)
        t2 == withdraw_from_vault(t1.acc, is_x, res, fault = 2)
    IN  IF ~t1.ok THEN Outcome("TransferFailed", t1.acc, <<c1>>)
        ELSE IF ~t2.ok THEN Outcome("TransferFailed", t2.acc, <<c1, c2>>)
        ELSE Outcome("Ok", t2.acc, <<c1, c2>>)

\* swap without the require! on mint_lp.supply of line 79
swap_no_supply_check(acc, lk, f, is_x, amount, min, fault) ==
    IF ~(amount > 0) THEN Outcome("InvalidAmount", acc, <<>>)
    ELSE IF ~(lk = FALSE) THEN Outcome("AMMLocked", acc, <<>>)
    ELSE IF ~(acc.vault_x > 0 /\ acc.vault_y > 0)
         THEN Outcome("InsufficientBalance", acc, <<>>)
    ELSE LET res == swap_curve(acc, f, is_x, amount, min)
         IN  IF ~res.ok THEN Outcome(res.err, acc, <<>>)
             ELSE IF res.deposit = 0 THEN Outcome("InvalidAmount", acc, <<>>)
             ELSE IF res.withdraw = 0 THEN Outcome("InvalidAmount", acc, <<>>)
             ELSE [swap_effects(acc, is_x, res, fault)
                       EXCEPT !.deposit = res.deposit, !.withdraw = res.withdraw,
                              !.fee = res.fee, !.net = res.amount_in_net]

\* swap.rs:73-110
swap(acc, lk, f, is_x, amount, min, fault) ==
    IF ~(amount > 0) THEN Outcome("InvalidAmount", acc, <<>>)
    ELSE IF ~(lk = FALSE) THEN Outcome("AMMLocked", acc, <<>>)
    ELSE IF ~(acc.vault_x > 0 /\ acc.vault_y > 0)
         THEN Outcome("InsufficientBalance", acc, <<>>)
    ELSE IF ~(acc.supply > 0) THEN Outcome("InsufficientBalance", acc, <<>>)
    ELSE LET res == swap_curve(acc, f, is_x, amount, min)
         IN  IF ~res.ok THEN Outcome(res.err, acc, <<>>)
             ELSE IF res.deposit = 0 THEN Outcome("InvalidAmount", acc, <<>>)
             ELSE IF res.withdraw = 0 THEN Outcome("InvalidAmount", acc, <<>>)
             ELSE [swap_effects(acc, is_x, res, fault)
                       EXCEPT !.deposit = res.deposit, !.withdraw = res.withdraw,
                              !.fee = res.fee, !.net = res.amount_in_net]

----------------------------------------------------------------------------
(* The host runs an instruction as one transaction (§5): the account       *)
(* changes of an instruction that returns an error are discarded.          *)

Commit(pre, out) == IF out.err = "Ok" THEN out.acc ELSE pre

NoCall ==
    [op |-> "none", lp_amount |-> 0, max_x |-> 0, max_y |-> 0,
     is_x |-> FALSE, amount |-> 0, min |-> 0, fault |-> 0,
     err |-> "Ok", x |-> 0, y |-> 0, deposit |-> 0, withdraw |-> 0,
     fee |-> 0, net |-> 0, log |-> <<>>,
     pre |-> Accounts, pre_locked |-> locked]

Record(call, out, fault) ==
    [call EXCEPT !.err = out.err, !.x = out.x, !.y = out.y,
                 !.deposit = out.deposit, !.withdraw = out.withdraw,
                 !.fee = out.fee, !.net = out.net, !.log = out.log,
                 !.fault = IF fault <= Len(out.log) THEN fault ELSE 0]

Store(acc) ==
    /\ vault_x' = acc.vault_x
    /\ vault_y' = acc.vault_y
    /\ supply'  = acc.supply
    /\ ata_x'   = acc.ata_x
    /\ ata_y'   = acc.ata_y
    /\ ata_lp'  = acc.ata_lp

----------------------------------------------------------------------------
(* Instructions                                                            *)

Deposit(lp_amount, max_x, max_y, fault) ==
    LET out == deposit(Accounts, locked, lp_amount, max_x, max_y, fault)
    IN  /\ Store(Commit(Accounts, out))
        /\ last' = Record([NoCall EXCEPT !.op = "deposit", !.lp_amount = lp_amount,
                                         !.max_x = max_x, !.max_y = max_y],
                          out, fault)
        /\ UNCHANGED <<locked, fee>>

Swap(is_x, amount, min, fault) ==
    LET out == swap(Accounts, locked, fee, is_x, amount, min, fault)
    IN  /\ Store(Commit(Accounts, out))
        /\ last' = Record([NoCall EXCEPT !.op = "swap", !.is_x = is_x,
                                         !.amount = amount, !.min = min],
                          out, fault)
        /\ UNCHANGED <<locked, fee>>

\* §4.2: the lock flag is toggled by a privileged collaborator.
SetLocked(b) ==
    /\ locked # b
    /\ locked' = b
    /\ last' = [NoCall EXCEPT !.op = "lock"]
    /\ UNCHANGED <<fee, vault_x, vault_y, supply, ata_x, ata_y, ata_lp>>

Init ==
    /\ locked = FALSE
    /\ fee \in FeeRates
    /\ vault_x = 0
    /\ vault_y = 0
    /\ supply = 0
    /\ ata_x = UserX0
    /\ ata_y = UserY0
    /\ ata_lp = 0
    /\ last = [op |-> "none", lp_amount |-> 0, max_x |-> 0, max_y |-> 0,
               is_x |-> FALSE, amount |-> 0, min |-> 0, fault |-> 0,
               err |-> "Ok", x |-> 0, y |-> 0, deposit |-> 0, withdraw |-> 0,
               fee |-> 0, net |-> 0, log |-> <<>>,
               pre |-> [vault_x |-> 0, vault_y |-> 0, supply |-> 0,
                        ata_x |-> UserX0, ata_y |-> UserY0, ata_lp |-> 0],
               pre_locked |-> FALSE]

Next ==
    \/ \E s \in Shares, mx \in Amounts, my \in Amounts, k \in Faults :
           Deposit(s, mx, my, k)
    \/ \E ix \in BOOLEAN, a \in Amounts, m \in Mins, k \in 0..2 :
           Swap(ix, a, m, k)
    \/ \E b \in BOOLEAN : SetLocked(b)

Spec == Init /\ [][Next]_vars

----------------------------------------------------------------------------
(* SpecCurve: one instruction, run on a pool drawn from a wider range of   *)
(* reserves, supplies and fee rates than Spec reaches from the empty pool. *)
(* The depositor holds whatever of each asset the vault does not.  A vault *)
(* may be empty, and it may hold tokens while no share exists: a token     *)
(* account accepts transfers from anyone, not only from Deposit.           *)

InitCurve ==
    /\ locked = FALSE
    /\ fee \in CurveFees
    /\ vault_x \in CurveReserves \cup {0}
    /\ vault_y \in CurveReserves \cup {0}
    /\ supply \in CurveSupplies \cup {0}
    /\ ata_x = U64Max - vault_x
    /\ ata_y = U64Max - vault_y
    /\ ata_lp = 0
    /\ last = [op |-> "none", lp_amount |-> 0, max_x |-> 0, max_y |-> 0,
               is_x |-> FALSE, amount |-> 0, min |-> 0, fault |-> 0,
               err |-> "Ok", x |-> 0, y |-> 0, deposit |-> 0, withdraw |-> 0,
               fee |-> 0, net |-> 0, log |-> <<>>,
               pre |-> [vault_x |-> vault_x, vault_y |-> vault_y,
                        supply |-> supply, ata_x |-> ata_x, ata_y |-> ata_y,
                        ata_lp |-> ata_lp],
               pre_locked |-> FALSE]

NextCurve ==
    /\ last.op = "none"
    /\ \/ \E s \in CurveIns, mx \in CurveMaxes, my \in CurveMaxes :
              Deposit(s, mx, my, 0)
       \/ \E ix \in BOOLEAN, a \in CurveIns, m \in CurveMins :
              Swap(ix, a, m, 0)

SpecCurve == InitCurve /\ [][NextCurve]_vars

----------------------------------------------------------------------------
(* Properties                                                              *)

IsDeposit == last.op = "deposit"
IsSwap == last.op = "swap"
IsCall == IsDeposit \/ IsSwap

\* No CPI was issued and every account is as it was before the instruction.
NoEffects == last.log = <<>> /\ Accounts = last.pre

\* The reserves the last swap read, by is_x (swap.rs:89-92).
PreIn == IF last.is_x THEN last.pre.vault_x ELSE last.pre.vault_y
PreOut == IF last.is_x THEN last.pre.vault_y ELSE last.pre.vault_x

\* What the last swap moved into and out of the vaults, and to the trader.
VaultInDelta ==
    IF last.is_x THEN vault_x - last.pre.vault_x ELSE vault_y - last.pre.vault_y
VaultOutDelta ==
    IF last.is_x THEN last.pre.vault_y - vault_y ELSE last.pre.vault_x - vault_x
TraderOutDelta ==
    IF last.is_x THEN ata_y - last.pre.ata_y ELSE ata_x - last.pre.ata_x
TraderInDelta ==
    IF last.is_x THEN last.pre.ata_x - ata_x ELSE last.pre.ata_y - ata_y
TraderInBalance == IF last.is_x THEN last.pre.ata_x ELSE last.pre.ata_y

\* C1: every Deposit and every Swap made while the pool is locked, whatever
\* its arguments (a requested amount of 0 included), fails with the
\* pool-locked error and leaves reserves, share supply and balances unchanged.
C1_LockedAlwaysPoolLocked ==
    (IsCall /\ last.pre_locked) => (last.err = "AMMLocked" /\ NoEffects)

\* C2: a successful swap never decreases the constant product:
\* (reserve_in + amount_in_net) * (reserve_out - amount_out) >=
\* reserve_in * reserve_out, and the product of the two vault balances after
\* the swap is at least the product before it.
C2_ProductNonDecreasing ==
    (IsSwap /\ last.err = "Ok") =>
        /\ PreIn > 0 /\ PreOut > 0 /\ last.amount > 0
        /\ (PreIn + last.net) * (PreOut - last.withdraw) >= PreIn * PreOut
        /\ vault_x * vault_y >= last.pre.vault_x * last.pre.vault_y

\* C2 witness: a swap at a non-zero fee went through on reserves (1000, 1000).
C2_Witness ==
    /\ IsSwap /\ last.err = "Ok" /\ last.fee > 0
    /\ last.pre.vault_x = 1000 /\ last.pre.vault_y = 1000
    /\ vault_x * vault_y > 1000 * 1000

\* The checks of each handler, as they stood on the accounts before the call.
DepositPreconditions ==
    /\ last.lp_amount > 0
    /\ ~last.pre_locked
    /\ last.x <= last.max_x
    /\ last.y <= last.max_y

SwapPreconditions ==
    /\ last.amount > 0
    /\ ~last.pre_locked
    /\ last.pre.vault_x > 0 /\ last.pre.vault_y > 0 /\ last.pre.supply > 0
    /\ last.deposit > 0 /\ last.withdraw > 0
    /\ last.withdraw >= last.min

PreconditionErrors ==
    {"InvalidAmount", "AMMLocked", "InsufficientBalance", "InsufficientTokenX",
     "InsufficientTokenY", "SlippageExceeded", "Overflow"}

\* C3: every precondition is evaluated before the first transfer or mint: a
\* call rejected by a precondition has issued no CPI and left every account
\* as it was, and a call that issued a CPI had passed every precondition.
C3_ChecksBeforeEffects ==
    /\ (IsCall /\ last.err \in PreconditionErrors) => NoEffects
    /\ (IsDeposit /\ last.log # <<>>) => DepositPreconditions
    /\ (IsSwap /\ last.log # <<>>) => SwapPreconditions

\* C3 witness: a deposit past the lock and amount checks was rejected by the
\* max_y bound, the last check before the transfers.
C3_Witness ==
    IsDeposit /\ last.err = "InsufficientTokenY" /\ last.y > last.max_y /\ NoEffects

\* The accounts after all effects of the last deposit / swap.
DepositApplied ==
    Accounts = [last.pre EXCEPT !.vault_x = @ + last.x, !.ata_x = @ - last.x,
                                !.vault_y = @ + last.y, !.ata_y = @ - last.y,
                                !.supply = @ + last.lp_amount,
                                !.ata_lp = @ + last.lp_amount]

SwapApplied ==
    Accounts =
        IF last.is_x
        THEN [last.pre EXCEPT !.vault_x = @ + last.deposit, !.ata_x = @ - last.deposit,
                              !.vault_y = @ - last.withdraw, !.ata_y = @ + last.withdraw]
        ELSE [last.pre EXCEPT !.vault_y = @ + last.deposit, !.ata_y = @ - last.deposit,
                              !.vault_x = @ - last.withdraw, !.ata_x = @ + last.withdraw]

\* A CPI of the last call was rejected by the token program.
CpiRejected ==
    \/ last.fault # 0
    \/ IsDeposit /\ last.log # <<>>
                 /\ (last.pre.ata_x < last.x \/ last.pre.ata_y < last.y)
    \/ IsSwap /\ last.log # <<>> /\ TraderInBalance < last.deposit

\* C4: the effects of one instruction are all-or-nothing: after a call either
\* every effect is applied and the call returned Ok, or the call failed and
\* no account differs from before it; a call one of whose CPIs was rejected
\* (the Y transfer or the mint after the X transfer, the outbound transfer
\* after the inbound one) is a failed call.
C4_AllOrNothing ==
    /\ IsDeposit => \/ last.err = "Ok" /\ DepositApplied
                    \/ last.err # "Ok" /\ Accounts = last.pre
    /\ IsSwap => \/ last.err = "Ok" /\ SwapApplied
                 \/ last.err # "Ok" /\ Accounts = last.pre
    /\ (IsCall /\ CpiRejected) => last.err \in {"TransferFailed", "MintFailed"}

\* C4 witness: the Y transfer of a deposit failed after the X transfer had
\* been issued, and the accounts are those from before the deposit.
C4_Witness ==
    /\ IsDeposit /\ Len(last.log) = 2 /\ last.err = "TransferFailed"
    /\ last.x > 0 /\ Accounts = last.pre

\* The amounts the last deposit was to take, computed from the accounts
\* before it (the empty-pool match of the handler, else the curve).
DepositQuote ==
    IF last.pre.supply = 0 /\ last.pre.vault_x = 0 /\ last.pre.vault_y = 0
    THEN [ok |-> TRUE, x |-> last.max_x, y |-> last.max_y]
    ELSE LET q == xy_deposit_amounts_from_l(last.pre.vault_x, last.pre.vault_y,
                                            last.pre.supply, last.lp_amount, 6)
         IN  [ok |-> q.ok, x |-> q.x, y |-> q.y]

\* C5: a deposit on an unlocked pool whose computed x exceeds max_x fails
\* with InsufficientTokenX, one whose x is within max_x and whose computed y
\* exceeds max_y fails with InsufficientTokenY, in both cases with no transfer
\* and no mint; every successful deposit moves x <= max_x and y <= max_y.
C5_DepositSlippage ==
    IsDeposit =>
        /\ (~last.pre_locked /\ last.lp_amount > 0 /\ DepositQuote.ok) =>
               /\ DepositQuote.x > last.max_x =>
                      last.err = "InsufficientTokenX" /\ NoEffects
               /\ (DepositQuote.x <= last.max_x /\ DepositQuote.y > last.max_y) =>
                      last.err = "InsufficientTokenY" /\ NoEffects
               /\ DepositQuote.y > last.max_y =>
                      last.err \in {"InsufficientTokenX", "InsufficientTokenY"}
        /\ last.err = "Ok" =>
               /\ vault_x - last.pre.vault_x <= last.max_x
               /\ vault_y - last.pre.vault_y <= last.max_y
               /\ last.pre.ata_x - ata_x <= last.max_x
               /\ last.pre.ata_y - ata_y <= last.max_y

\* C5 witness: a deposit into a funded pool was rejected because the curve
\* asked for more X than max_x, with Y within its bound.
C5_Witness ==
    /\ IsDeposit /\ last.pre.supply > 0 /\ last.err = "InsufficientTokenX"
    /\ DepositQuote.x > last.max_x /\ DepositQuote.y <= last.max_y /\ NoEffects

\* The curve's answer for the last swap on the reserves before it.
SwapQuote == swap_output(PreIn, PreOut, last.amount, fee)

\* C6: a swap whose computed amount_out is below minimum_amount_out fails
\* with the slippage error and performs no transfer; every successful swap
\* pays the trader at least minimum_amount_out, whatever deposits and swaps
\* came before it.
C6_SwapSlippage ==
    IsSwap =>
        /\ ( /\ last.amount > 0 /\ ~last.pre_locked
             /\ last.pre.vault_x > 0 /\ last.pre.vault_y > 0 /\ last.pre.supply > 0
             /\ SwapQuote.ok /\ SwapQuote.amount_out > 0
             /\ SwapQuote.amount_out < last.min )
           => (last.err = "SlippageExceeded" /\ NoEffects)
        /\ last.err = "Ok" =>
               /\ last.withdraw >= last.min
               /\ TraderOutDelta >= last.min
               /\ VaultOutDelta = TraderOutDelta

\* C6 witness: a swap that would have paid 1 was rejected for a minimum of 2
\* on a pool an earlier deposit had funded.
C6_Witness ==
    /\ IsSwap /\ last.err = "SlippageExceeded" /\ last.min > SwapQuote.amount_out
    /\ SwapQuote.amount_out > 0 /\ NoEffects

\* C7: on an unlocked pool with reserves (0, 0) and share supply 0, a deposit
\* of S > 0 shares with bounds (a, b) which the depositor holds and the token
\* program accepts succeeds, and leaves reserves exactly (a, b) and share
\* supply exactly S.
C7_Bootstrap ==
    ( /\ IsDeposit /\ ~last.pre_locked /\ last.lp_amount > 0
      /\ last.pre.vault_x = 0 /\ last.pre.vault_y = 0 /\ last.pre.supply = 0 )
    => /\ last.err \in {"Ok", "TransferFailed", "MintFailed"}
       /\ ( /\ last.fault = 0
            /\ last.pre.ata_x >= last.max_x /\ last.pre.ata_y >= last.max_y )
          => last.err = "Ok"
       /\ last.err = "Ok" =>
              /\ vault_x = last.max_x
              /\ vault_y = last.max_y
              /\ supply = last.lp_amount
              /\ ata_lp = last.pre.ata_lp + last.lp_amount

\* C7 witness: the first deposit, with unequal bounds, went through.
C7_Witness ==
    /\ IsDeposit /\ last.err = "Ok" /\ last.pre.supply = 0
    /\ last.max_x = 1 /\ last.max_y = 2 /\ last.lp_amount = 2
    /\ vault_x = 1 /\ vault_y = 2 /\ supply = 2

\* C8: for every swap on non-empty reserves fee = floor(amount_in * fee_rate
\* / 10000), amount_in_net = amount_in - fee and amount_out =
\* floor(reserve_out * amount_in_net / (reserve_in + amount_in_net)), and that
\* amount_out is what leaves the output vault; on reserves (1000, 1000) at
\* 30 bps, 100 of X in gives fee 0, net 100 and exactly 90 out.
C8_SwapFormula ==
    IsSwap =>
        /\ last.err = "Ok" =>
               /\ PreIn > 0 /\ PreOut > 0
               /\ last.fee = (last.amount * fee) \div 10000
               /\ last.net = last.amount - last.fee
               /\ last.withdraw = (PreOut * last.net) \div (PreIn + last.net)
               /\ VaultOutDelta = last.withdraw
               /\ TraderOutDelta = last.withdraw
        /\ ( /\ last.pre.vault_x = 1000 /\ last.pre.vault_y = 1000 /\ fee = 30
             /\ last.pre.supply > 0 /\ last.is_x /\ last.amount = 100 )
           => /\ last.min <= 90 =>
                     /\ last.err = "Ok"
                     /\ last.fee = 0 /\ last.net = 100 /\ last.withdraw = 90
                     /\ vault_y = 910 /\ vault_x = 1100
              /\ last.min > 90 => last.err = "SlippageExceeded"

\* C8 witness: the swap of 100 X on (1000, 1000) at 30 bps paid exactly 90.
C8_Witness ==
    /\ IsSwap /\ last.err = "Ok" /\ last.is_x /\ last.amount = 100 /\ fee = 30
    /\ last.pre.vault_x = 1000 /\ last.pre.vault_y = 1000
    /\ last.withdraw = 90 /\ last.fee = 0

\* C9: for fixed reserves and fee rate the swap output is non-decreasing in
\* amount_in: whenever the swap of the last amount and the swap of a smaller
\* amount on the same reserves both succeed, the smaller one pays no more.
C9_OutputMonotone ==
    (IsSwap /\ last.err = "Ok") =>
        \A a1 \in CurveIns, m1 \in CurveMins :
            a1 <= last.amount =>
                LET r == swap_curve(last.pre, fee, last.is_x, a1, m1)
                IN  r.ok => r.withdraw <= last.withdraw

\* C9 witness: a swap went through for which a smaller amount on the same
\* reserves also succeeds and pays strictly less.
C9_Witness ==
    /\ IsSwap /\ last.err = "Ok"
    /\ \E a1 \in CurveIns :
           /\ a1 < last.amount
           /\ swap_curve(last.pre, fee, last.is_x, a1, 0).ok
           /\ swap_curve(last.pre, fee, last.is_x, a1, 0).withdraw < last.withdraw

\* C10: a deposit of s shares into a funded pool (rx, ry, L) takes
\* x = ceil(s * rx / L) and y = ceil(s * ry / L); redeeming s shares pro rata,
\* rounded down, from the pool after it returns at most x and y, and the
\* reserves behind each share that existed before do not decrease.
C10_DepositRoundsUp ==
    (IsDeposit /\ last.err = "Ok" /\ last.pre.supply > 0) =>
        LET s  == last.lp_amount
            rx == last.pre.vault_x
            ry == last.pre.vault_y
            L  == last.pre.supply
            x  == vault_x - rx
            y  == vault_y - ry
        IN  /\ s > 0
            /\ supply = L + s
            /\ x = CeilDiv(s * rx, L)
            /\ y = CeilDiv(s * ry, L)
            /\ (s * vault_x) \div supply <= x
            /\ (s * vault_y) \div supply <= y
            /\ vault_x * L >= rx * supply
            /\ vault_y * L >= ry * supply

\* C10 witness: a deposit into a funded pool where s * rx / L is no integer,
\* so that the amount taken was rounded up.
C10_Witness ==
    /\ IsDeposit /\ last.err = "Ok" /\ last.pre.supply > 0
    /\ (vault_x - last.pre.vault_x) * last.pre.supply
           > last.lp_amount * last.pre.vault_x
    /\ (last.lp_amount * vault_x) \div supply < vault_x - last.pre.vault_x

\* The checks of Swap::swap that come before the curve, on the accounts the
\* last swap read.
SwapReachesCurve ==
    /\ last.amount > 0 /\ ~last.pre_locked
    /\ last.pre.vault_x > 0 /\ last.pre.vault_y > 0 /\ last.pre.supply > 0

\* The output vault after the last swap.
VaultOut == IF last.is_x THEN vault_y ELSE vault_x

\* C11: a swap whose amount_out would reach reserve_out fails with the
\* insufficient-liquidity error and transfers nothing; after every successful
\* swap the output vault still holds a strictly positive balance.
C11_NeverDrains ==
    IsSwap =>
        /\ ( /\ SwapReachesCurve
             /\ PreIn + (last.amount - (last.amount * fee) \div 10000) <= U64Max
             /\ (PreOut * (last.amount - (last.amount * fee) \div 10000))
                    \div (PreIn + (last.amount - (last.amount * fee) \div 10000))
                >= PreOut )
           => (last.err = "InsufficientBalance" /\ NoEffects)
        /\ last.err = "Ok" =>
               /\ last.withdraw < PreOut
               /\ VaultOut = PreOut - last.withdraw
               /\ VaultOut > 0
               /\ vault_x > 0 /\ vault_y > 0

\* C11 witness: a swap went through that left a single unit in the output
\* vault.
C11_Witness ==
    IsSwap /\ last.err = "Ok" /\ PreOut >= 2 /\ VaultOut = 1

\* C12: a successful deposit issues exactly three CPIs in this order: the
\* transfer of x from the depositor to vault X, the transfer of y from the
\* depositor to vault Y, the mint of requested_shares to the depositor; after
\* it both reserves, the share supply and the depositor's balances have
\* moved by exactly x, y and requested_shares.
C12_DepositEffectsInOrder ==
    (IsDeposit /\ last.err = "Ok") =>
        /\ last.log = << Cpi("transfer", "ata_x", "vault_x", last.x),
                         Cpi("transfer", "ata_y", "vault_y", last.y),
                         Cpi("mint", "lp_mint", "ata_lp", last.lp_amount) >>
        /\ vault_x = last.pre.vault_x + last.x
        /\ vault_y = last.pre.vault_y + last.y
        /\ supply = last.pre.supply + last.lp_amount
        /\ ata_x = last.pre.ata_x - last.x
        /\ ata_y = last.pre.ata_y - last.y
        /\ ata_lp = last.pre.ata_lp + last.lp_amount
        /\ last.x = DepositQuote.x /\ last.y = DepositQuote.y

\* C12 witness: a deposit of unequal amounts (1 of X, 2 of Y) went through
\* with its three CPIs.
C12_Witness ==
    /\ IsDeposit /\ last.err = "Ok" /\ last.lp_amount = 2
    /\ last.x = 1 /\ last.y = 2 /\ Len(last.log) = 3
    /\ vault_x = last.pre.vault_x + 1 /\ vault_y = last.pre.vault_y + 2

C14_EmptyPoolRejected ==
    IsSwap =>
        /\ (/\ last.amount > 0 /\ ~last.pre_locked
            /\ (last.pre.vault_x = 0 \/ last.pre.vault_y = 0 \/ last.pre.supply = 0))
               => /\ last.err = "InsufficientBalance"
                  /\ NoEffects
                  /\ last.log = << >>
        /\ last.err = "Ok" =>
               /\ last.pre.vault_x > 0 /\ last.pre.vault_y > 0
               /\ last.pre.supply > 0

\* C14 witness: a swap on a pool whose vaults hold tokens but whose share
\* supply is 0 was rejected although the curve would have quoted an output.
C14_Witness ==
    /\ IsSwap /\ last.amount > 0 /\ ~last.pre_locked
    /\ last.pre.vault_x > 0 /\ last.pre.vault_y > 0 /\ last.pre.supply = 0
    /\ SwapQuote.ok /\ SwapQuote.amount_out >= 1 /\ SwapQuote.amount_out >= last.min
    /\ last.err = "InsufficientBalance"

\* C15: a swap that reaches the curve and whose computed amount_out is 0, or
\* whose amount after the fee is 0, fails with InvalidAmount and moves
\* nothing; every successful swap takes more than 0 from the trader and pays
\* out at least 1.
C15_DegenerateSwapRejected ==
    IsSwap =>
        /\ (/\ SwapReachesCurve /\ SwapQuote.ok
            /\ (SwapQuote.amount_out = 0 \/ SwapQuote.amount_in_net = 0))
               => /\ last.err = "InvalidAmount"
                  /\ NoEffects
                  /\ last.log = << >>
        /\ last.err = "Ok" =>
               /\ last.deposit > 0 /\ last.net > 0 /\ last.withdraw >= 1
               /\ TraderInDelta > 0
               /\ TraderOutDelta >= 1

\* C15 witness: the curve computed an output of 0 for a non-zero input (the
\* input is small against the input reserve) and the swap was rejected.
C15_Witness ==
    /\ IsSwap /\ SwapReachesCurve /\ SwapQuote.ok
    /\ SwapQuote.amount_in_net > 0 /\ SwapQuote.amount_out = 0
    /\ last.min = 0
    /\ last.err = "InvalidAmount"

\* C16: whenever the share supply is 0, a deposit with lp_amount > 0 on an
\* unlocked pool, by a depositor who holds max_x and max_y, succeeds and
\* deposits exactly max_x and max_y, also when a vault already holds tokens.
C16_FirstDepositTakesMaxes ==
    (/\ IsDeposit /\ last.lp_amount > 0 /\ ~last.pre_locked
     /\ last.pre.supply = 0
     /\ last.max_x <= last.pre.ata_x /\ last.max_y <= last.pre.ata_y
     /\ last.pre.vault_x + last.max_x <= U64Max
     /\ last.pre.vault_y + last.max_y <= U64Max
     /\ last.fault = 0)
        => /\ last.err = "Ok"
           /\ last.x = last.max_x /\ last.y = last.max_y
           /\ vault_x = last.pre.vault_x + last.max_x
           /\ vault_y = last.pre.vault_y + last.max_y
           /\ supply = last.lp_amount

\* The two expressions §4.1b gives for the output of a swap.
OutBySubtraction(rin, rout, net) == rout - ((rin * rout) \div (rin + net))
OutByShare(rin, rout, net) == (rout * net) \div (rin + net)

\* The fee-free part of the input of the last swap, computed as §4.1b does.
NetIn == last.amount - ((last.amount * fee) \div 10000)

\* C17 as the specification states it: for reserves > 0 and a net input > 0,
\* the two expressions for the output are equal.
C17_FormulasEqual ==
    (IsSwap /\ PreIn > 0 /\ PreOut > 0 /\ NetIn > 0) =>
        OutBySubtraction(PreIn, PreOut, NetIn) = OutByShare(PreIn, PreOut, NetIn)

\* C17 amended: the subtraction form is the share form rounded up, so it is
\* equal to the share form when (reserve_in + net) divides reserve_out * net
\* and one more otherwise; a successful swap pays the share form.
C17_FormulasWithinOne ==
    (IsSwap /\ PreIn > 0 /\ PreOut > 0 /\ NetIn > 0) =>
        LET A == OutBySubtraction(PreIn, PreOut, NetIn)
            B == OutByShare(PreIn, PreOut, NetIn)
            exact == (PreOut * NetIn) % (PreIn + NetIn) = 0
        IN  /\ B <= A /\ A <= B + 1
            /\ (A = B) <=> exact
            /\ last.err = "Ok" =>
                   /\ last.net = NetIn
                   /\ last.withdraw = B
                   /\ TraderOutDelta = B

\* C17 witness: the swap of 100 against reserves (1000, 1000) at 30 bps went
\* through; the subtraction form gives 91, the share form 90, and 90 was paid.
C17_Witness ==
    /\ IsSwap /\ last.err = "Ok"
    /\ PreIn = 1000 /\ PreOut = 1000 /\ last.amount = 100 /\ fee = 30
    /\ OutBySubtraction(PreIn, PreOut, NetIn) = 91
    /\ OutByShare(PreIn, PreOut, NetIn) = 90
    /\ TraderOutDelta = 90

\* The fee the last swap charged, computed as §4.1b does.
FeeCharged == (last.amount * fee) \div 10000

ExactDepositX == CeilDiv(last.lp_amount * last.pre.vault_x, last.pre.supply)
ExactDepositY == CeilDiv(last.lp_amount * last.pre.vault_y, last.pre.supply)
DepositOverflows ==
    /\ last.lp_amount > 0 /\ ~last.pre_locked /\ last.pre.supply > 0
    /\ (ExactDepositX > U64Max \/ ExactDepositY > U64Max)
SwapOverflows == SwapReachesCurve /\ PreIn + NetIn > U64Max

\* C19: a deposit or a swap whose curve arithmetic leaves the range of a u64
\* fails with Overflow and makes no transfer and no mint; every successful
\* operation moves exactly the unbounded-integer value of the spec formula.
C19_OverflowIsOverflow ==
    /\ (IsDeposit /\ DepositOverflows) => (last.err = "Overflow" /\ NoEffects)
    /\ (IsSwap /\ SwapOverflows) => (last.err = "Overflow" /\ NoEffects)
    /\ (IsDeposit /\ last.err = "Ok" /\ last.pre.supply > 0) =>
           /\ vault_x - last.pre.vault_x = ExactDepositX
           /\ vault_y - last.pre.vault_y = ExactDepositY
    /\ (IsSwap /\ last.err = "Ok") =>
           /\ VaultInDelta = last.amount
           /\ VaultOutDelta = OutByShare(PreIn, PreOut, NetIn)

\* The parts of C19 other than the error name of an overflowing deposit.
C19_OverflowNeverApplied ==
    /\ (IsDeposit /\ DepositOverflows) => (last.err = "InvalidAmount" /\ NoEffects)
    /\ (IsSwap /\ SwapOverflows) => (last.err = "Overflow" /\ NoEffects)

\* C20: from the empty pool, in every state reached by deposits and swaps,
\* supply > 0 implies that both vaults hold tokens.
C20_SharesBackedByReserves ==
    supply > 0 => (vault_x > 0 /\ vault_y > 0)

====
